---------------------------- MODULE Spec2Model ----------------------------
(***************************************************************************)
(* The feed merge of debug_parse.py (its simulation of                     *)
(* parseThingSpeakMerge): two feeds of timestamped readings are merged     *)
(* into one record per minute, with per-sensor values t_s / rh_s and a     *)
(* validity flag ok_s, then the records are completed and sorted.          *)
(*                                                                         *)
(* Representation.                                                         *)
(*  - A Python string is the sequence of its comma-free parts, so          *)
(*    "21.5,22.0" is <<"21.5", "22.0">>, "0" is <<"0">> and the empty      *)
(*    string is <<"">>.  None (a missing key or a JSON null, which         *)
(*    f.get() does not tell apart) is the empty sequence <<>>.             *)
(*  - A float is written as Python prints it ("21.5", "0.0"); the value    *)
(*    None of t_s / rh_s is "None".                                        *)
(*  - created_at strings carry a Z or an offset, so the parsed datetimes   *)
(*    are timezone-aware and compare by instant: a parsed timestamp is     *)
(*    its POSIX time in seconds.                                           *)
(*  - A dict is a function on the set of its keys; the dict `entries`,     *)
(*    which Python iterates in insertion order, is the sequence of its     *)
(*    items [key, e] in that order.                                        *)
(***************************************************************************)
EXTENDS Integers, Sequences, FiniteSets, TLC

\* debug_parse.py:16
SENSOR_COUNT == 5

\* The largest number of readings in the two feeds together.
MaxReadings == 3

Sensors == 1 .. SENSOR_COUNT

\* min(SENSOR_COUNT, 8), the range of the per-field loops
LegacySensors == 1 .. (IF SENSOR_COUNT < 8 THEN SENSOR_COUNT ELSE 8)

None == <<>>

NoValue == "None"

---------------------------------------------------------------------------
(* The pure helpers *)

\* float(v) of a comma-free string: the strings float() accepts, with the
\* repr of the result.  Every other string raises ValueError.
FloatOf ==
  ("0" :> "0.0") @@ ("0.0" :> "0.0") @@ ("21.5" :> "21.5") @@
  ("22.0" :> "22.0") @@ ("40" :> "40.0") @@ ("41" :> "41.0")

\* val == 0 of a float
IsZero(val) == val \in {"0.0", "-0.0"}

num_parse(v) ==
  IF v = None \/ v = <<"">> \/ v = <<"null">> \/ v = <<"None">>
  THEN NoValue
  ELSE IF Len(v) = 1 /\ v[1] \in DOMAIN FloatOf
       THEN FloatOf[v[1]]
       ELSE NoValue

\* datetime.fromisoformat(ts_str.replace('Z', '+00:00')).timestamp() of the
\* strings it accepts; every other string raises ValueError.
EpochOf ==
  ("2026-02-25T09:58:10Z" :> 1772013490) @@
  ("2026-02-25T10:00:00Z" :> 1772013600) @@
  ("2026-02-25T10:00:30Z" :> 1772013630) @@
  ("2026-02-25T10:00:40Z" :> 1772013640) @@
  ("2026-02-25T10:01:30Z" :> 1772013690) @@
  ("2026-02-25T18:03:00+08:00" :> 1772013780)

Parses(ts_str) == ts_str \in DOMAIN EpochOf

fromisoformat(ts_str) == EpochOf[ts_str]

\* round(ts.timestamp() / 60): Python rounds a half to the even neighbour.
round_min(ts) ==
  LET q == ts \div 60
      r == ts % 60
  IN  IF r < 30 THEN q
      ELSE IF r > 30 THEN q + 1
      ELSE IF q % 2 = 0 THEN q ELSE q + 1

TKey(s) == <<"t1", "t2", "t3", "t4", "t5">>[s]

RhKey(s) == <<"rh1", "rh2", "rh3", "rh4", "rh5">>[s]

OkKey(s) == <<"ok1", "ok2", "ok3", "ok4", "ok5">>[s]

\* e[k] = v
Put(e, k, v) == (k :> v) @@ e

---------------------------------------------------------------------------
(* The inputs *)

\* created_at: two instants of one minute bucket (10:00:30 is a half,
\* rounded to the even minute), one of the next bucket, and a string that
\* is no ISO timestamp.
Stamps ==
  { "2026-02-25T10:00:00Z", "2026-02-25T10:00:30Z", "2026-02-25T10:00:40Z",
    "not-a-date" }

\* created_at of the feeds of OrderSpec: five buckets, two
\* instants in one of them.
OrderStamps ==
  { "2026-02-25T09:58:10Z", "2026-02-25T10:00:00Z", "2026-02-25T10:00:30Z",
    "2026-02-25T10:00:40Z", "2026-02-25T10:01:30Z",
    "2026-02-25T18:03:00+08:00" }

\* field1 .. field5 of a temperature-feed reading: two packed-CSV layouts
\* (field2 holds a comma) and two legacy layouts.
CsvA == << None, <<"", "22.0", "0">>, <<"40">>, None, None >>

CsvB == << None, <<"21.5", "abc">>, None, None, None >>

LegacyC == << <<"0">>, None, <<"0.0">>, <<"abc">>, <<"21.5">> >>

LegacyD == << <<"21.5">>, <<"22.0">>, <<"">>, <<"null">>, <<"0">> >>

TempFields == { CsvA, CsvB, LegacyC, LegacyD }

\* field1 .. field5 of a humidity-feed reading
HumE == << <<"40">>, <<"0">>, None, <<"0.0">>, <<"41">> >>

HumF == << <<"0">>, <<"41">>, <<"40">>, <<"">>, <<"abc">> >>

HumFields == { HumE, HumF }

TempReadings == [created_at : Stamps, field : TempFields]

HumReadings == [created_at : Stamps, field : HumFields]

SeqsUpTo(S, n) == UNION { [1 .. m -> S] : m \in 0 .. n }

---------------------------------------------------------------------------
(* The state *)

VARIABLES tempFeeds, humFeeds, entries, all_entries, i, j, pc

vars == << tempFeeds, humFeeds, entries, all_entries, i, j, pc >>

HasKey(ents, key) == \E n \in 1 .. Len(ents) : ents[n].key = key

IndexOf(ents, key) == CHOOSE n \in 1 .. Len(ents) : ents[n].key = key

\* A faulty EnsureEntry: the record's timestamp follows the latest reading.
EnsureEntryLatest(ents, key, ts) ==
  IF HasKey(ents, key)
  THEN [ents EXCEPT ![IndexOf(ents, key)].e = Put(@, "timestamp", ts)]
  ELSE Append(ents, [key |-> key, e |-> [timestamp |-> ts]])

\* if key not in entries: entries[key] = {'timestamp': ts}
EnsureEntry(ents, key, ts) ==
  IF HasKey(ents, key)
  THEN ents
  ELSE Append(ents, [key |-> key, e |-> [timestamp |-> ts]])

\* A faulty CsvSensor: the last part of each list is not read.
CsvSensorShort(e, tParts, rhParts, s) ==
  LET tv == IF s < Len(tParts) THEN num_parse(<<tParts[s]>>) ELSE NoValue
      hv == IF s < Len(rhParts) THEN num_parse(<<rhParts[s]>>) ELSE NoValue
      e1 == Put(Put(e, TKey(s), tv), RhKey(s), hv)
  IN  IF OkKey(s) \notin DOMAIN e1
      THEN Put(e1, OkKey(s), IF tv # NoValue \/ hv # NoValue THEN 1 ELSE 0)
      ELSE e1

\* A faulty CsvSensor: ok_s is written only when a value parsed, and is
\* left unset otherwise.
CsvSensorLeaveUnset(e, tParts, rhParts, s) ==
  LET tv == IF s - 1 < Len(tParts) THEN num_parse(<<tParts[s]>>) ELSE NoValue
      hv == IF s - 1 < Len(rhParts) THEN num_parse(<<rhParts[s]>>) ELSE NoValue
      e1 == Put(Put(e, TKey(s), tv), RhKey(s), hv)
  IN  IF OkKey(s) \notin DOMAIN e1 /\ (tv # NoValue \/ hv # NoValue)
      THEN Put(e1, OkKey(s), 1)
      ELSE e1

\* the CSV branch for sensor s
CsvSensor(e, tParts, rhParts, s) ==
  LET tv == IF s - 1 < Len(tParts) THEN num_parse(<<tParts[s]>>) ELSE NoValue
      hv == IF s - 1 < Len(rhParts) THEN num_parse(<<rhParts[s]>>) ELSE NoValue
      e1 == Put(Put(e, TKey(s), tv), RhKey(s), hv)
  IN  IF OkKey(s) \notin DOMAIN e1
      THEN Put(e1, OkKey(s), IF tv # NoValue \/ hv # NoValue THEN 1 ELSE 0)
      ELSE e1

\* A faulty LegacySensor: ok_s is written by every reading.
LegacySensorRevise(e, f, s) ==
  LET val == num_parse(f.field[s])
      e1 == Put(e, TKey(s), val)
  IN  Put(e1, OkKey(s), IF val # NoValue /\ ~IsZero(val) THEN 1 ELSE 0)

\* A faulty LegacySensor: a parsed 0 counts as a valid reading.
LegacySensorZeroValid(e, f, s) ==
  LET val == num_parse(f.field[s])
      e1 == Put(e, TKey(s), val)
  IN  IF OkKey(s) \notin DOMAIN e1
      THEN Put(e1, OkKey(s), IF val # NoValue THEN 1 ELSE 0)
      ELSE e1

\* the legacy branch for sensor s
LegacySensor(e, f, s) ==
  LET val == num_parse(f.field[s])
      e1 == Put(e, TKey(s), val)
  IN  IF OkKey(s) \notin DOMAIN e1
      THEN Put(e1, OkKey(s), IF val # NoValue /\ ~IsZero(val) THEN 1 ELSE 0)
      ELSE e1

\* A faulty HumSensor: ok_s is set on first touch only, as in the
\* temperature loop.
HumSensorFirstTouch(e, f, s) ==
  LET val == num_parse(f.field[s])
      e1 == Put(e, RhKey(s), val)
  IN  IF OkKey(s) \notin DOMAIN e1
      THEN Put(e1, OkKey(s), IF val # NoValue /\ ~IsZero(val) THEN 1 ELSE 0)
      ELSE e1

\* A faulty HumSensor: a humidity of 0 or None clears ok_s.
HumSensorDowngrade(e, f, s) ==
  LET val == num_parse(f.field[s])
      e1 == Put(e, RhKey(s), val)
  IN  Put(e1, OkKey(s), IF val # NoValue /\ ~IsZero(val) THEN 1 ELSE 0)

\* the humidity loop body for sensor s
HumSensor(e, f, s) ==
  LET val == num_parse(f.field[s])
      e1 == Put(e, RhKey(s), val)
  IN  IF val # NoValue /\ ~IsZero(val)
      THEN Put(e1, OkKey(s), 1)
      ELSE e1

\* field2 and isinstance(field2, str) and ',' in field2
IsCsv(f) == f.field[2] # None /\ f.field[2] # <<"">> /\ Len(f.field[2]) >= 2

\* (f.get('field3') or '').split(',')
RhParts(f) == IF f.field[3] = None THEN <<"">> ELSE f.field[3]

RECURSIVE CsvLoop(_, _, _, _)
CsvLoop(e, tParts, rhParts, s) ==
  IF s > SENSOR_COUNT THEN e
  ELSE CsvLoop(CsvSensor(e, tParts, rhParts, s), tParts, rhParts, s + 1)

RECURSIVE LegacyLoop(_, _, _)
LegacyLoop(e, f, s) ==
  IF s \notin LegacySensors THEN e
  ELSE LegacyLoop(LegacySensor(e, f, s), f, s + 1)

RECURSIVE HumLoop(_, _, _)
HumLoop(e, f, s) ==
  IF s \notin LegacySensors THEN e
  ELSE HumLoop(HumSensor(e, f, s), f, s + 1)

\* the body of `for f in tempFeeds` after the key is found
TempBody(e, f) ==
  IF IsCsv(f) THEN CsvLoop(e, f.field[2], RhParts(f), 1)
  ELSE LegacyLoop(e, f, 1)

\* A faulty IngestTemp: a created_at that does not parse counts as the epoch.
IngestTempEpoch(ents, f) ==
  LET ts == IF Parses(f.created_at) THEN fromisoformat(f.created_at) ELSE 0
      key == round_min(ts)
      es == EnsureEntry(ents, key, ts)
      n == IndexOf(es, key)
  IN  [es EXCEPT ![n].e = TempBody(@, f)]

\* one iteration of `for f in tempFeeds`
IngestTemp(ents, f) ==
  IF ~Parses(f.created_at) THEN ents
  ELSE LET ts == fromisoformat(f.created_at)
           key == round_min(ts)
           es == EnsureEntry(ents, key, ts)
           n == IndexOf(es, key)
       IN  [es EXCEPT ![n].e = TempBody(@, f)]

\* one iteration of `for f in humFeeds`
IngestHum(ents, f) ==
  IF ~Parses(f.created_at) THEN ents
  ELSE LET ts == fromisoformat(f.created_at)
           key == round_min(ts)
           es == EnsureEntry(ents, key, ts)
           n == IndexOf(es, key)
       IN  [es EXCEPT ![n].e = HumLoop(@, f, 1)]

\* A faulty FillSensor: ok_s gets no default.
FillSensorNoOk(e, s) ==
  LET e1 == IF TKey(s) \notin DOMAIN e THEN Put(e, TKey(s), NoValue) ELSE e
  IN  IF RhKey(s) \notin DOMAIN e1 THEN Put(e1, RhKey(s), NoValue) ELSE e1

\* "Fill missing keys" for sensor s
FillSensor(e, s) ==
  LET e1 == IF TKey(s) \notin DOMAIN e THEN Put(e, TKey(s), NoValue) ELSE e
      e2 == IF RhKey(s) \notin DOMAIN e1 THEN Put(e1, RhKey(s), NoValue) ELSE e1
  IN  IF OkKey(s) \notin DOMAIN e2 THEN Put(e2, OkKey(s), 0) ELSE e2

RECURSIVE FillMissing(_, _)
FillMissing(e, s) ==
  IF s > SENSOR_COUNT THEN e ELSE FillMissing(FillSensor(e, s), s + 1)

\* list.sort(key=...) is stable: an element goes after every element whose
\* key is not larger.
RECURSIVE InsertSorted(_, _)
InsertSorted(sorted, e) ==
  IF sorted = << >> THEN << e >>
  ELSE IF sorted[Len(sorted)].timestamp <= e.timestamp
       THEN Append(sorted, e)
       ELSE Append(InsertSorted(SubSeq(sorted, 1, Len(sorted) - 1), e),
                   sorted[Len(sorted)])

RECURSIVE SortFrom(_, _, _)
SortFrom(list, n, sorted) ==
  IF n > Len(list) THEN sorted
  ELSE SortFrom(list, n + 1, InsertSorted(sorted, list[n]))

\* A faulty SortByTimestamp: the list stays in insertion order.
NoSort(list) == list

\* all_entries.sort(key=lambda e: e['timestamp'])
SortByTimestamp(list) == SortFrom(list, 1, << >>)

InitWith(TR, HR) ==
  /\ tempFeeds \in SeqsUpTo(TR, MaxReadings)
  /\ humFeeds \in SeqsUpTo(HR, MaxReadings - Len(tempFeeds))
  /\ entries = << >>
  /\ all_entries = << >>
  /\ i = 1
  /\ j = 1
  /\ pc = "merge"

TempStep ==
  /\ pc = "merge"
  /\ i <= Len(tempFeeds)
  /\ entries' = IngestTemp(entries, tempFeeds[i])
  /\ i' = i + 1
  /\ UNCHANGED << tempFeeds, humFeeds, all_entries, j, pc >>

HumStep ==
  /\ pc = "merge"
  /\ i > Len(tempFeeds)
  /\ j <= Len(humFeeds)
  /\ entries' = IngestHum(entries, humFeeds[j])
  /\ j' = j + 1
  /\ UNCHANGED << tempFeeds, humFeeds, all_entries, i, pc >>

Finalize ==
  /\ pc = "merge"
  /\ i > Len(tempFeeds)
  /\ j > Len(humFeeds)
  /\ entries' = [n \in 1 .. Len(entries) |->
                   [entries[n] EXCEPT !.e = FillMissing(@, 1)]]
  /\ all_entries' = SortByTimestamp([n \in 1 .. Len(entries) |-> entries'[n].e])
  /\ pc' = "done"
  /\ UNCHANGED << tempFeeds, humFeeds, i, j >>

Next == TempStep \/ HumStep \/ Finalize

Init == InitWith(TempReadings, HumReadings)

Spec == Init /\ [][Next]_vars

\* The merge of feeds that differ in their timestamps only.
OrderInit ==
  InitWith([created_at : OrderStamps, field : {LegacyD}],
           [created_at : OrderStamps, field : {HumE}])

OrderSpec == OrderInit /\ [][Next]_vars

---------------------------------------------------------------------------
(* What the claims speak of *)

GoodStamp(f) == Parses(f.created_at)

KeyOf(f) == round_min(fromisoformat(f.created_at))

\* The readings ingested so far, in the order of ingestion, and those among
\* them whose created_at parsed.
TempDone == SubSeq(tempFeeds, 1, i - 1)

HumDone == SubSeq(humFeeds, 1, j - 1)

GoodTemp == SelectSeq(TempDone, GoodStamp)

GoodHum == SelectSeq(HumDone, GoodStamp)

Good == GoodTemp \o GoodHum

GoodKeys == { KeyOf(Good[n]) : n \in 1 .. Len(Good) }

\* The parsed time of the first ingested reading of MergeKey k.
FirstTime(k) ==
  LET m == CHOOSE m \in 1 .. Len(Good) :
             /\ KeyOf(Good[m]) = k
             /\ \A l \in 1 .. m - 1 : KeyOf(Good[l]) # k
  IN  fromisoformat(Good[m].created_at)

AllKeys ==
  {"timestamp"} \cup { TKey(s) : s \in Sensors } \cup { RhKey(s) : s \in Sensors }
    \cup { OkKey(s) : s \in Sensors }

\* Some ingested reading wrote t_s, rh_s, ok_s of the record of MergeKey k.
TWritten(k) == \E n \in 1 .. Len(GoodTemp) : KeyOf(GoodTemp[n]) = k

RhWritten(k) ==
  \/ \E n \in 1 .. Len(GoodTemp) : KeyOf(GoodTemp[n]) = k /\ IsCsv(GoodTemp[n])
  \/ \E n \in 1 .. Len(GoodHum) : KeyOf(GoodHum[n]) = k

OkWritten(k, s) ==
  \/ TWritten(k)
  \/ \E n \in 1 .. Len(GoodHum) :
        /\ KeyOf(GoodHum[n]) = k
        /\ num_parse(GoodHum[n].field[s]) \notin {NoValue, "0.0", "-0.0"}

\* C1: after the merge every output record has a t_s, an rh_s and an ok_s
\* entry for every sensor s in 1..SENSOR_COUNT (and no other key but
\* timestamp), ok_s is 0 or 1, and a t_s, rh_s, ok_s that no reading wrote
\* is None, None, 0.
C1_Complete ==
  pc = "done" =>
    \A n \in 1 .. Len(all_entries) :
      LET e == all_entries[n]
          k == round_min(e.timestamp)
      IN  /\ DOMAIN e = AllKeys
          /\ \A s \in Sensors :
                /\ e[OkKey(s)] \in {0, 1}
                /\ ~TWritten(k) => e[TKey(s)] = NoValue
                /\ ~RhWritten(k) => e[RhKey(s)] = NoValue
                /\ ~OkWritten(k, s) => e[OkKey(s)] = 0

\* A merged record that only a humidity reading touched: its t_s were never
\* written, and the ok_s of a sensor whose humidity was 0 or missing neither.
C1_Witness ==
  /\ pc = "done"
  /\ \E n \in 1 .. Len(all_entries) :
       LET k == round_min(all_entries[n].timestamp)
       IN  /\ ~TWritten(k)
           /\ \E s \in Sensors : ~OkWritten(k, s) /\ all_entries[n][RhKey(s)] = "0.0"
           /\ \E s \in Sensors : all_entries[n][OkKey(s)] = 1

\* C2: the records are exactly the MergeKeys of the ingested readings whose
\* created_at parsed, one record per key, and a record's timestamp is the
\* parsed time of the first such reading of its key (temperature feed, then
\* humidity feed); the output has one record per key with that timestamp.
C2_OnePerKey ==
  /\ Len(entries) = Cardinality(GoodKeys)
  /\ \A n \in 1 .. Len(entries) :
       /\ entries[n].key \in GoodKeys
       /\ \A m \in 1 .. Len(entries) : entries[m].key = entries[n].key => m = n
       /\ entries[n].e.timestamp = FirstTime(entries[n].key)
  /\ pc = "done" =>
       /\ Len(all_entries) = Cardinality(GoodKeys)
       /\ \A k \in GoodKeys :
            \E n \in 1 .. Len(all_entries) :
              /\ all_entries[n].timestamp = FirstTime(k)
              /\ \A m \in 1 .. Len(all_entries) :
                   round_min(all_entries[m].timestamp) = k => m = n

\* Three readings, the first and the last of one MergeKey with different
\* times, the last from the humidity feed: two records, and the record of
\* the shared key keeps the time of the first.
C2_Witness ==
  /\ pc = "done"
  /\ Len(tempFeeds) = 2 /\ Len(humFeeds) = 1
  /\ Len(Good) = 3
  /\ KeyOf(Good[1]) = KeyOf(Good[3])
  /\ KeyOf(Good[1]) # KeyOf(Good[2])
  /\ fromisoformat(Good[1].created_at) # fromisoformat(Good[3].created_at)
  /\ Len(all_entries) = 2

\* The position, in insertion order, of the record that became output n.
InsertedAt(n) ==
  CHOOSE m \in 1 .. Len(entries) : entries[m].e = all_entries[n]

\* C8: the output is non-decreasing by timestamp, it holds the records of
\* `entries` and no other, and records of equal timestamps keep their
\* insertion order.
C8_Ordered ==
  pc = "done" =>
    /\ Len(all_entries) = Len(entries)
    /\ \A n \in 1 .. Len(entries) :
         \E m \in 1 .. Len(all_entries) : all_entries[m] = entries[n].e
    /\ \A m, n \in 1 .. Len(all_entries) :
         m < n =>
           /\ all_entries[m].timestamp <= all_entries[n].timestamp
           /\ all_entries[m].timestamp = all_entries[n].timestamp
                 => InsertedAt(m) < InsertedAt(n)

\* Three records that were inserted latest first.
C8_Witness ==
  /\ pc = "done"
  /\ Len(entries) = 3
  /\ entries[1].e.timestamp > entries[2].e.timestamp
  /\ entries[2].e.timestamp > entries[3].e.timestamp
  /\ all_entries = << entries[3].e, entries[2].e, entries[1].e >>

---------------------------------------------------------------------------
(* The single steps *)

\* The dict of MergeKey k in `ents`; a key not yet in `ents` has the dict
\* that EnsureEntry is about to create for the reading f.
DictOf(ents, k, f) ==
  IF HasKey(ents, k) THEN ents[IndexOf(ents, k)].e
  ELSE [timestamp |-> fromisoformat(f.created_at)]

\* ok_s of a dict: << >> when the key is not set, else << value >>.
OkOf(e, s) == IF OkKey(s) \in DOMAIN e THEN << e[OkKey(s)] >> ELSE << >>

\* The values a temperature reading holds for sensor s: part s of field2
\* and of field3 in the packed-CSV format, field{s} and nothing otherwise.
TempValue(f, s) ==
  IF IsCsv(f)
  THEN IF s <= Len(f.field[2]) THEN num_parse(<< f.field[2][s] >>) ELSE NoValue
  ELSE num_parse(f.field[s])

RhValue(f, s) ==
  LET parts == IF f.field[3] = None THEN << "" >> ELSE f.field[3]
  IN  IF s <= Len(parts) THEN num_parse(<< parts[s] >>) ELSE NoValue

NonZero(val) == val # NoValue /\ val \notin {"0.0", "-0.0"}

\* The flag a temperature reading gives sensor s when it is the first to
\* touch ok_s.
OkAlone(f, s) ==
  IF IsCsv(f)
  THEN IF TempValue(f, s) # NoValue \/ RhValue(f, s) # NoValue THEN 1 ELSE 0
  ELSE IF NonZero(TempValue(f, s)) THEN 1 ELSE 0

TempGoodStep == TempStep /\ GoodStamp(tempFeeds[i])

HumGoodStep == HumStep /\ GoodStamp(humFeeds[j])

\* C3: a temperature reading at a MergeKey that an earlier temperature
\* reading touched overwrites t_s (and, in the packed-CSV format, rh_s)
\* with its own values and leaves every ok_s as it was.
C3_FirstTouch ==
  [][ (TempGoodStep /\ TWritten(KeyOf(tempFeeds[i]))) =>
        LET f == tempFeeds[i]
            before == DictOf(entries, KeyOf(f), f)
            after == DictOf(entries', KeyOf(f), f)
        IN  \A s \in Sensors :
              /\ after[TKey(s)] = TempValue(f, s)
              /\ IsCsv(f) => after[RhKey(s)] = RhValue(f, s)
              /\ OkOf(before, s) # << >>
              /\ OkOf(after, s) = OkOf(before, s) ]_vars

\* Two temperature readings of one MergeKey: for some sensor the second
\* brought another value, which the record now holds, and alone it would
\* have flagged the sensor invalid; the flag of the first, 1, stands.
C3_Witness ==
  /\ pc = "merge" /\ i = 3 /\ j = 1
  /\ Len(Good) = 2
  /\ KeyOf(tempFeeds[1]) = KeyOf(tempFeeds[2])
  /\ \E s \in Sensors :
       /\ TempValue(tempFeeds[1], s) # TempValue(tempFeeds[2], s)
       /\ entries[1].e[TKey(s)] = TempValue(tempFeeds[2], s)
       /\ OkAlone(tempFeeds[1], s) = 1
       /\ OkAlone(tempFeeds[2], s) = 0
       /\ entries[1].e[OkKey(s)] = 1

\* C4: a humidity reading whose field{s} parses to a non-zero value leaves
\* ok_s = 1 on the record of its MergeKey whatever ok_s was; one whose
\* field{s} parses to 0 or to no value leaves ok_s as it was, set or unset.
C4_Override ==
  [][ HumGoodStep =>
        LET f == humFeeds[j]
            before == DictOf(entries, KeyOf(f), f)
            after == DictOf(entries', KeyOf(f), f)
        IN  \A s \in Sensors :
              /\ after[RhKey(s)] = num_parse(f.field[s])
              /\ IF NonZero(num_parse(f.field[s]))
                 THEN OkOf(after, s) = << 1 >>
                 ELSE OkOf(after, s) = OkOf(before, s) ]_vars

\* One temperature reading and one humidity reading of the same MergeKey:
\* a sensor the temperature reading flagged 0 has a non-zero humidity and
\* is now flagged 1, another one has the humidity 0 and is still flagged 0.
C4_Witness ==
  /\ pc = "merge" /\ j = 2
  /\ Len(tempFeeds) = 1 /\ Len(Good) = 2
  /\ KeyOf(tempFeeds[1]) = KeyOf(humFeeds[1])
  /\ \E s \in Sensors :
       /\ OkAlone(tempFeeds[1], s) = 0
       /\ NonZero(num_parse(humFeeds[1].field[s]))
       /\ entries[1].e[OkKey(s)] = 1
  /\ \E s \in Sensors :
       /\ OkAlone(tempFeeds[1], s) = 0
       /\ num_parse(humFeeds[1].field[s]) = "0.0"
       /\ entries[1].e[OkKey(s)] = 0

\* The good readings, of both feeds, of MergeKey k.
ReadingsAt(k) == { n \in 1 .. Len(Good) : KeyOf(Good[n]) = k }

\* The output record of MergeKey k.
OutputAt(k) ==
  all_entries[CHOOSE n \in 1 .. Len(all_entries) :
                round_min(all_entries[n].timestamp) = k]

\* The output holds the outcome `Outcome(value, t_s, ok_s)` for every
\* sensor of every legacy temperature reading that is the only reading of
\* its MergeKey.
LegacyAlone(Outcome(_, _, _)) ==
  pc = "done" =>
    \A n \in 1 .. Len(tempFeeds) :
      LET f == tempFeeds[n]
      IN  (GoodStamp(f) /\ ~IsCsv(f) /\ Cardinality(ReadingsAt(KeyOf(f))) = 1) =>
            \A s \in Sensors :
              Outcome(f.field[s], OutputAt(KeyOf(f))[TKey(s)],
                      OutputAt(KeyOf(f))[OkKey(s)])

IsNumeric(v) == Len(v) = 1 /\ v[1] \in DOMAIN FloatOf

C5_OutcomeOriginal(v, t, ok) ==
  /\ v = << "0" >> => t = "0.0" /\ ok = 0
  /\ (IsNumeric(v) /\ v # << "0" >>) => ok = 1

C5_OutcomeAmended(v, t, ok) ==
  /\ v = << "0" >> => t = "0.0" /\ ok = 0
  /\ IsNumeric(v) => t = FloatOf[v[1]] /\ (ok = 1 <=> t \notin {"0.0", "-0.0"})
  /\ ~IsNumeric(v) => t = NoValue /\ ok = 0

\* C5 as claimed: a legacy field{s} of exactly "0" gives t_s = 0.0 and
\* ok_s = 0 when the reading is the only one of its MergeKey, and every
\* other numeric field{s} gives ok_s = 1.
C5_Original == LegacyAlone(C5_OutcomeOriginal)

\* C5 as amended: a legacy temperature reading never raises ok_s to 1 for
\* a sensor whose field{s} parses to 0; when it is the only reading of its
\* MergeKey the output has t_s = 0.0 and ok_s = 0 for a field{s} of "0" and
\* for every other spelling of zero ("0.0"), ok_s = 1 for a field{s} that
\* parses to a non-zero number, and t_s = None, ok_s = 0 otherwise.
C5_ZeroInvalid ==
  /\ [][ (TempGoodStep /\ ~IsCsv(tempFeeds[i])) =>
          LET f == tempFeeds[i]
              before == DictOf(entries, KeyOf(f), f)
              after == DictOf(entries', KeyOf(f), f)
          IN  \A s \in Sensors :
                (IsNumeric(f.field[s]) /\ ~NonZero(FloatOf[f.field[s][1]])) =>
                  /\ after[TKey(s)] = FloatOf[f.field[s][1]]
                  /\ OkOf(after, s) = << 1 >> => OkOf(before, s) = << 1 >> ]_vars
  /\ [] LegacyAlone(C5_OutcomeAmended)

\* A legacy reading alone at its MergeKey with the fields "0", "0.0" and
\* "21.5": the first two sensors have t_s = 0.0 and ok_s = 0, the third
\* ok_s = 1.
C5_Witness ==
  /\ pc = "done"
  /\ Len(tempFeeds) = 1 /\ Len(humFeeds) = 0
  /\ tempFeeds[1].field = LegacyC
  /\ Len(all_entries) = 1
  /\ all_entries[1]["t1"] = "0.0" /\ all_entries[1]["ok1"] = 0
  /\ all_entries[1]["t3"] = "0.0" /\ all_entries[1]["ok3"] = 0
  /\ all_entries[1]["t5"] = "21.5" /\ all_entries[1]["ok5"] = 1

\* C6: a packed-CSV temperature reading whose field2 has k < SENSOR_COUNT
\* parts is ingested without raising (the loop goes on to the next
\* reading); it sets t_s to the parsed part s of field2 for s <= k and to
\* None for s > k, and rh_s likewise from the parts of field3, a missing
\* field3 being the empty string; a sensor whose ok_s it is the first to
\* touch gets ok_s = 1 exactly when t_s or rh_s got a value.
C6_CsvSplit ==
  [][ (TempGoodStep /\ IsCsv(tempFeeds[i])
         /\ Len(tempFeeds[i].field[2]) < SENSOR_COUNT) =>
        LET f == tempFeeds[i]
            k == Len(f.field[2])
            rh == IF f.field[3] = None THEN << "" >> ELSE f.field[3]
            before == DictOf(entries, KeyOf(f), f)
            after == DictOf(entries', KeyOf(f), f)
        IN  /\ i' = i + 1 /\ pc' = "merge"
            /\ \A s \in Sensors :
                 /\ s <= k => after[TKey(s)] = num_parse(<< f.field[2][s] >>)
                 /\ s > k => after[TKey(s)] = NoValue
                 /\ s <= Len(rh) => after[RhKey(s)] = num_parse(<< rh[s] >>)
                 /\ s > Len(rh) => after[RhKey(s)] = NoValue
                 /\ OkOf(before, s) = << >> =>
                      /\ after[OkKey(s)] \in {0, 1}
                      /\ after[OkKey(s)] = 1 <=>
                           (after[TKey(s)] # NoValue \/ after[RhKey(s)] # NoValue) ]_vars

\* The packed-CSV reading "21.5,abc" with no field3, first at its MergeKey:
\* sensor 1 has its temperature and ok_1 = 1, the part that is no number
\* and the sensors past the two parts have no value and ok_s = 0.
C6_Witness ==
  /\ pc = "merge" /\ i = 2
  /\ GoodStamp(tempFeeds[1]) /\ tempFeeds[1].field = CsvB
  /\ entries[1].e["t1"] = "21.5" /\ entries[1].e["ok1"] = 1
  /\ entries[1].e["t2"] = NoValue /\ entries[1].e["ok2"] = 0
  /\ \A s \in 3 .. SENSOR_COUNT :
       entries[1].e[TKey(s)] = NoValue /\ entries[1].e[OkKey(s)] = 0
  /\ \A s \in Sensors : entries[1].e[RhKey(s)] = NoValue

RECURSIVE TempFrom(_, _, _)
TempFrom(ents, feed, n) ==
  IF n > Len(feed) THEN ents ELSE TempFrom(IngestTemp(ents, feed[n]), feed, n + 1)

RECURSIVE HumFrom(_, _, _)
HumFrom(ents, feed, n) ==
  IF n > Len(feed) THEN ents ELSE HumFrom(IngestHum(ents, feed[n]), feed, n + 1)

\* The mapping that ingesting the feeds `temp` and `hum` builds.
Ingested(temp, hum) == HumFrom(TempFrom(<< >>, temp, 1), hum, 1)

\* The output of the merge of the feeds `temp` and `hum`.
Merged(temp, hum) ==
  LET ents == Ingested(temp, hum)
  IN  SortByTimestamp([n \in 1 .. Len(ents) |-> FillMissing(ents[n].e, 1)])

\* C7: the mapping is, after every step, the one that the readings
\* ingested so far build with those whose created_at does not parse taken
\* out of the feeds, and the output is the merge of the feeds without them:
\* such a reading creates no record, changes none, and stops nothing.
C7_BadStampDropped ==
  /\ pc = "merge" => entries = Ingested(GoodTemp, GoodHum)
  /\ pc = "done" =>
       all_entries = Merged(SelectSeq(tempFeeds, GoodStamp),
                            SelectSeq(humFeeds, GoodStamp))

\* A temperature feed whose first reading has a bad created_at, followed
\* by a good one, and a good humidity reading of another MergeKey: both
\* good readings have their record in the output.
C7_Witness ==
  /\ pc = "done"
  /\ Len(tempFeeds) = 2 /\ Len(humFeeds) = 1
  /\ ~GoodStamp(tempFeeds[1]) /\ GoodStamp(tempFeeds[2]) /\ GoodStamp(humFeeds[1])
  /\ KeyOf(tempFeeds[2]) # KeyOf(humFeeds[1])
  /\ Len(all_entries) = 2
  /\ \E n \in 1 .. 2 : all_entries[n]["t1"] # NoValue
  /\ \E n \in 1 .. 2 : all_entries[n]["rh1"] # NoValue

\* What a packed-CSV reading does to ok_s, as `Unparsed(before, after)`
\* says it for a sensor whose t_s and rh_s both failed to parse.
CsvFlag(Unparsed(_, _)) ==
      (TempGoodStep /\ IsCsv(tempFeeds[i])) =>
        LET f == tempFeeds[i]
            before == DictOf(entries, KeyOf(f), f)
            after == DictOf(entries', KeyOf(f), f)
        IN  \A s \in Sensors :
              LET parsed == TempValue(f, s) # NoValue \/ RhValue(f, s) # NoValue
              IN  /\ (OkOf(after, s) = << 1 >> /\ OkOf(before, s) # << 1 >>) =>
                       (OkOf(before, s) = << >> /\ parsed)
                  /\ (OkOf(before, s) = << >> /\ parsed) => OkOf(after, s) = << 1 >>
                  /\ OkOf(before, s) # << >> => OkOf(after, s) = OkOf(before, s)
                  /\ (OkOf(before, s) = << >> /\ ~parsed) =>
                       Unparsed(OkOf(before, s), OkOf(after, s))

C9_LeftUnset(before, after) == after = << >>

C9_WritesZero(before, after) == after = << 0 >>

\* C9 as claimed: a packed-CSV reading sets ok_s = 1 only when ok_s is not
\* yet set and t_s or rh_s parsed, and leaves ok_s unset when neither
\* parsed.
C9_Original == [][CsvFlag(C9_LeftUnset)]_vars

\* C9 as amended: a packed-CSV reading writes ok_s only when ok_s is not
\* yet set on the record, and then writes 1 when t_s or rh_s parsed and 0
\* when neither did; an ok_s already set, 0 included, is left as it is.
C9_CsvFirstTouch == [][CsvFlag(C9_WritesZero)]_vars

\* Two packed-CSV readings of one MergeKey, before finalization: neither
\* value of some sensor parsed in the first, the second brought it a
\* temperature, and its ok_s is the 0 that the first reading wrote.
C9_Witness ==
  /\ pc = "merge" /\ i = 3 /\ j = 1
  /\ Len(Good) = 2
  /\ IsCsv(tempFeeds[1]) /\ IsCsv(tempFeeds[2])
  /\ KeyOf(tempFeeds[1]) = KeyOf(tempFeeds[2])
  /\ \E s \in Sensors :
       /\ OkAlone(tempFeeds[1], s) = 0
       /\ TempValue(tempFeeds[2], s) # NoValue
       /\ entries[1].e[TKey(s)] = TempValue(tempFeeds[2], s)
       /\ entries[1].e[OkKey(s)] = 0

\* C10: an ok_s that is 1 on a record is 1 on that record after every
\* further step, and is 1 in the output record of that MergeKey.
C10_NeverDowngraded ==
  [][ \A n \in 1 .. Len(entries) : \A s \in Sensors :
        OkOf(entries[n].e, s) = << 1 >> =>
          /\ Len(entries') >= n
          /\ entries'[n].key = entries[n].key
          /\ OkOf(entries'[n].e, s) = << 1 >>
          /\ pc' = "done" =>
               \E m \in 1 .. Len(all_entries') :
                 /\ all_entries'[m].timestamp = entries[n].e.timestamp
                 /\ all_entries'[m][OkKey(s)] = 1 ]_vars

\* Three readings of one MergeKey: the first temperature reading flags a
\* sensor valid, the second alone would flag it invalid, the humidity
\* reading has 0 or no value for it; the output flags it valid.
C10_Witness ==
  /\ pc = "done"
  /\ Len(tempFeeds) = 2 /\ Len(humFeeds) = 1
  /\ Len(Good) = 3 /\ Len(all_entries) = 1
  /\ \E s \in Sensors :
       /\ OkAlone(tempFeeds[1], s) = 1
       /\ OkAlone(tempFeeds[2], s) = 0
       /\ ~NonZero(num_parse(humFeeds[1].field[s]))
       /\ all_entries[1][OkKey(s)] = 1

=============================================================================
